---- MODULE Spec2Model ----
(***************************************************************************)
(* Model of gobuild's builder (src/builder.go): the watch loop with its    *)
(* debounce, the build units it spawns with `go b.build()`, and restart()  *)
(* acting on the single exec.Cmd handle created once in newBuilder.        *)
(*                                                                         *)
(* Strings are sequences of one-character strings, so that HasSuffix and   *)
(* the extension normalisation are computed rather than assumed.           *)
(***************************************************************************)
EXTENDS Integers, Sequences, FiniteSets, TLC

\* ------------------------------------------------------------------ bounds
\* First clock reading of the run (Unix seconds are far above the
\* debounce threshold, so the first qualifying event always passes).
ClockStart == 2
\* Last clock reading explored.
MaxClock == 6
\* Two dispatches are more than DebounceWindow apart, which bounds the units.
MaxUnits == (MaxClock - ClockStart) \div 2 + 1
Units == 1..MaxUnits

\* ------------------------------------------------------- program constants
\* builder.go:174  `time.Now().Unix()-buildTime <= 1`
DebounceWindow == 1

\* ----------------------------------------------------------------- strings
Separator == "/"
\* runtime.GOOS of the build that is modelled
GOOS == "linux"
\* os.Getwd()
Wd == <<"/", "w">>
ExeSuffix == <<".", "e">>

\* strings.HasSuffix
HasSuffix(s, suffix) ==
    /\ Len(suffix) <= Len(s)
    /\ SubSeq(s, Len(s) - Len(suffix) + 1, Len(s)) = suffix

\* strings.IndexByte(s, c) < 0
LacksByte(s, c) == \A i \in 1..Len(s) : s[i] # c

\* filepath.Base for a slash-separated, non-empty path without trailing slash
Base(p) ==
    LET idx == {i \in 1..Len(p) : p[i] = Separator}
        last == IF idx = {} THEN 0 ELSE CHOOSE i \in idx : \A j \in idx : j <= i
    IN SubSeq(p, last + 1, Len(p))

\* newBuilder: the name of the compiled program (builder.go:37-46)
ResolveOutput(outputName) ==
    LET n1 == IF Len(outputName) = 0 THEN Base(Wd) ELSE outputName
        n2 == IF GOOS = "windows" /\ ~HasSuffix(n1, ExeSuffix) THEN n1 \o ExeSuffix ELSE n1
    IN IF LacksByte(n2, "/") \/ LacksByte(n2, Separator)
       THEN Wd \o <<Separator>> \o n2
       ELSE n2

\* newBuilder: the argument list of `go build` (builder.go:53-57)
GoCmdArgs(mainFiles, outputName) ==
    LET args == <<"build", "-o", ResolveOutput(outputName)>>
    IN IF Len(mainFiles) > 0 THEN Append(args, mainFiles) ELSE args

\* newBuilder: drop empty extensions, prefix the others with '.' (builder.go:59-69)
RECURSIVE NormalizeExts(_)
NormalizeExts(exts) ==
    IF exts = <<>> THEN <<>>
    ELSE LET ext == Head(exts)
             rest == NormalizeExts(Tail(exts))
         IN IF Len(ext) = 0 THEN rest
            ELSE IF ext[1] # "." THEN <<(<<".">> \o ext)>> \o rest
            ELSE <<ext>> \o rest

\* a scan that tests only the first extension
ScanExtsFirstOnly(es, path) ==
    IF es = <<>> THEN TRUE
    ELSE LET ext == Head(es)
         IN IF Len(ext) = 0 THEN TRUE
            ELSE IF ext = <<"*">> THEN FALSE
            ELSE ~HasSuffix(path, ext)

\* a scan that lets a path through when nothing matched
RECURSIVE ScanExtsDefaultPass(_, _)
ScanExtsDefaultPass(es, path) ==
    IF es = <<>> THEN FALSE
    ELSE LET ext == Head(es)
         IN IF Len(ext) = 0 THEN ScanExtsDefaultPass(Tail(es), path)
            ELSE IF ext = <<"*">> THEN FALSE
            ELSE IF HasSuffix(path, ext) THEN FALSE
            ELSE ScanExtsDefaultPass(Tail(es), path)

\* builder.isIgnore, the scan of b.exts (builder.go:86-98)
RECURSIVE ScanExts(_, _)
ScanExts(es, path) ==
    IF es = <<>> THEN TRUE
    ELSE LET ext == Head(es)
         IN IF Len(ext) = 0 THEN ScanExts(Tail(es), path)
            ELSE IF ext = <<"*">> THEN FALSE
            ELSE IF HasSuffix(path, ext) THEN FALSE
            ELSE ScanExts(Tail(es), path)

\* an isIgnore without the test of line 82
IsIgnoreOfNoSelf(appPath, es, path) == ScanExts(es, path)

\* builder.isIgnore (builder.go:81-99); appCmd is never nil after newBuilder
IsIgnoreOf(appPath, es, path) ==
    IF appPath = path THEN TRUE ELSE ScanExts(es, path)

\* ---------------------------------------------------------- configurations
\* the arguments newBuilder is called with: exts, outputName, mainFiles
Configs ==
    { [exts |-> <<>>, outputName |-> <<>>, mainFiles |-> <<>>],
      [exts |-> << <<".", "g">> >>, outputName |-> <<"a">>, mainFiles |-> <<"m", ".", "g">>],
      [exts |-> << <<>>, <<"g">> >>, outputName |-> <<>>, mainFiles |-> <<>>],
      [exts |-> << <<"*">> >>, outputName |-> <<"a">>, mainFiles |-> <<>>] }

\* fsnotify.Op bits carried by an event
Ops == { {"Write"}, {"Chmod"}, {"Write", "Chmod"} }
\* event.Name values delivered by the watcher
EventNames ==
    { <<"/", "w", "/", "a">>,
      <<"m", ".", "g">>,
      <<"m", ".", "t">> }
Events == [name : EventNames, op : Ops]

\* ------------------------------------------------------------------- state
VARIABLES
    clock,       \* the value time.Now().Unix() returns
    buildTime,   \* watch: var buildTime int64
    exts,        \* builder.exts
    appCmd,      \* builder.appCmd: Path, Process (0 is nil), finished
    goCmdArgs,   \* builder.goCmdArgs
    procs,       \* the OS process started by each unit
    unit,        \* the goroutines spawned by `go b.build()`
    alive,       \* the tool itself has not crashed
    accepted,    \* number of "build triggered" log lines
    lastLoop,    \* what the watch loop did with what it received last
    lastEvent,   \* the event it received last
    lastQ        \* the last qualifying event: its clock reading, whether it fired

vars == <<clock, buildTime, exts, appCmd, goCmdArgs, procs, unit, alive,
          accepted, lastLoop, lastEvent, lastQ>>

NoEvent == [name |-> <<>>, op |-> {}]

IdleUnit ==
    [pc |-> "idle", invocations |-> 0, args |-> <<>>, result |-> "none",
     restartCalls |-> 0, sawProcess |-> 0, sawLive |-> FALSE,
     kill |-> "none", launch |-> "none", waitOn |-> 0, sawWaiting |-> {}]

\* the statements of restart() that touch b.appCmd without blocking
RacyPcs == {"restart", "run", "starting"}

isIgnore(path) == IsIgnoreOf(appCmd.Path, exts, path)

\* the errors restart() logs (builder.go:122, 130, 135)
RestartErrors ==
    {"already started", "start failed", "wait already called", "panic",
     "returned killed"}
RestartFailed ==
    \E u \in Units : unit[u].kill = "error" \/ unit[u].launch \in RestartErrors

\* newBuilder (builder.go:30-78), then the goroutine of watch before its
\* first select (builder.go:159-161)
Init ==
    /\ clock = ClockStart
    /\ buildTime = 0
    /\ \E c \in Configs :
          /\ exts = NormalizeExts(c.exts)
          /\ appCmd = [Path |-> ResolveOutput(c.outputName), Process |-> 0,
                       finished |-> FALSE]
          /\ goCmdArgs = GoCmdArgs(c.mainFiles, c.outputName)
    /\ procs = [p \in Units |-> "none"]
    /\ unit = [u \in Units |-> IdleUnit]
    /\ alive = TRUE
    /\ accepted = 0
    /\ lastLoop = "none"
    /\ lastEvent = NoEvent
    /\ lastQ = [t |-> 0, fired |-> FALSE, afterFailure |-> FALSE]

\* the wall clock advances
Tick ==
    /\ alive
    /\ clock < MaxClock
    /\ clock' = clock + 1
    /\ UNCHANGED <<buildTime, exts, appCmd, goCmdArgs, procs, unit, alive,
                   accepted, lastLoop, lastEvent, lastQ>>

\* a loop that calls b.build() instead of spawning it
LoopBlockedOnSync == {u \in Units : unit[u].pc # "idle"}

\* a loop that waits for the compiler but not for restart
LoopBlockedOnBuilding == {u \in Units : unit[u].pc \in {"spawned", "building"}}

\* `go b.build()` (builder.go:182): the units the loop waits for before it
\* returns to the select
LoopBlockedOn == {}

\* the goroutine the next `go b.build()` starts
NextUnit == CHOOSE u \in Units : unit[u].pc = "idle" /\ \A v \in Units : v < u => unit[v].pc # "idle"

\* a debounce test with < in place of <=
DebouncedStrict(now) == now - buildTime < DebounceWindow

\* the debounce test of builder.go:174 on the reading `now`
Debounced(now) == now - buildTime <= DebounceWindow

\* a test for an event that is a Chmod and nothing else
IsChmodOnly(op) == op = {"Chmod"}

\* event.Op&fsnotify.Chmod == fsnotify.Chmod (builder.go:164)
IsChmod(op) == "Chmod" \in op

\* a timestamp taken from the reading of the debounce test
StampOfTest(atTest, atStamp) == atTest

\* buildTime = time.Now().Unix() (builder.go:179): the clock is read again
Stamp(atTest, atStamp) == atStamp

\* case event := <-watcher.Events (builder.go:163-182).  The clock is read at
\* line 174 and again at line 179; d is what it advanced in between.
WatchEvent(e, d) ==
    /\ alive
    /\ \A u \in LoopBlockedOn : unit[u].pc = "done"
    /\ lastEvent' = e
    /\ IF IsChmod(e.op)
       THEN /\ d = 0
            /\ lastLoop' = "chmod"
            /\ UNCHANGED <<clock, buildTime, unit, accepted, lastQ>>
       ELSE IF isIgnore(e.name)
       THEN /\ d = 0
            /\ lastLoop' = "ignored"
            /\ UNCHANGED <<clock, buildTime, unit, accepted, lastQ>>
       ELSE IF Debounced(clock)
       THEN /\ d = 0
            /\ lastLoop' = "suppressed"
            /\ lastQ' = [t |-> clock, fired |-> FALSE, afterFailure |-> RestartFailed]
            /\ UNCHANGED <<clock, buildTime, unit, accepted>>
       ELSE /\ clock + d <= MaxClock
            /\ clock' = clock + d
            /\ buildTime' = Stamp(clock, clock + d)
            /\ lastLoop' = "triggered"
            /\ accepted' = accepted + 1
            /\ lastQ' = [t |-> clock, fired |-> TRUE, afterFailure |-> RestartFailed]
            /\ unit' = [unit EXCEPT ![NextUnit].pc = "spawned"]
    /\ UNCHANGED <<exts, appCmd, goCmdArgs, procs, alive>>

\* case err := <-watcher.Errors (builder.go:183-184)
WatchError ==
    /\ alive
    /\ \A u \in LoopBlockedOn : unit[u].pc = "done"
    /\ lastLoop' = "error"
    /\ UNCHANGED <<clock, buildTime, exts, appCmd, goCmdArgs, procs, unit,
                   alive, accepted, lastEvent, lastQ>>

\* build(): exec.Command("go", b.goCmdArgs...) and the start of goCmd.Run()
\* (builder.go:102-108)
BuildStart(u) ==
    /\ alive
    /\ unit[u].pc = "spawned"
    /\ unit' = [unit EXCEPT ![u].pc = "building",
                            ![u].invocations = @ + 1,
                            ![u].args = goCmdArgs]
    /\ UNCHANGED <<clock, buildTime, exts, appCmd, goCmdArgs, procs, alive,
                   accepted, lastLoop, lastEvent, lastQ>>

\* a build() without the return of line 110
AfterBuildNoReturn(ok) == "restart"

\* a build() that runs the compiler again after a failure
AfterBuildRetry(ok) == IF ok THEN "restart" ELSE "spawned"

\* build(): what follows goCmd.Run() (builder.go:108-115)
AfterBuild(ok) == IF ok THEN "restart" ELSE "done"

\* goCmd.Run() returns (builder.go:108-115)
BuildExit(u, ok) ==
    /\ alive
    /\ unit[u].pc = "building"
    /\ unit' = [unit EXCEPT ![u].pc = AfterBuild(ok),
                            ![u].result = IF ok THEN "ok" ELSE "fail",
                            ![u].restartCalls =
                                IF AfterBuild(ok) = "restart" THEN @ + 1 ELSE @]
    /\ UNCHANGED <<clock, buildTime, exts, appCmd, goCmdArgs, procs, alive,
                   accepted, lastLoop, lastEvent, lastQ>>

\* a restart() that gives up when Kill fails
AfterKillAbort(err) == IF err THEN "done" ELSE "run"

\* restart(): what follows the kill block (builder.go:129-134)
AfterKill(err) == "run"

\* restart(): kill process (builder.go:126-132).  os.Process.Kill fails on a
\* process that Wait has already reaped and signals any other.
RestartKill(u) ==
    /\ alive
    /\ unit[u].pc = "restart"
    /\ LET p == appCmd.Process
           err == p # 0 /\ procs[p] = "reaped"
       IN /\ unit' = [unit EXCEPT
                 ![u].pc = AfterKill(err),
                 ![u].sawProcess = p,
                 ![u].sawLive = (p # 0 /\ procs[p] = "live"),
                 ![u].sawWaiting = {v \in Units : unit[v].pc = "waiting"},
                 ![u].kill = IF p = 0 THEN "none"
                             ELSE IF err THEN "error" ELSE "sent"]
          /\ procs' = IF p # 0 /\ procs[p] = "live"
                      THEN [procs EXCEPT ![p] = "killed"]
                      ELSE procs
    /\ UNCHANGED <<clock, buildTime, exts, appCmd, goCmdArgs, alive,
                   accepted, lastLoop, lastEvent, lastQ>>

\* b.appCmd.Run() is called; Cmd.Start refuses a Cmd whose Process is set
\* (builder.go:134-136)
RunStart(u) ==
    /\ alive
    /\ unit[u].pc = "run"
    /\ IF appCmd.Process # 0
       THEN unit' = [unit EXCEPT ![u].pc = "done", ![u].launch = "already started"]
       ELSE unit' = [unit EXCEPT ![u].pc = "starting", ![u].launch = "calling"]
    /\ UNCHANGED <<clock, buildTime, exts, appCmd, goCmdArgs, procs, alive,
                   accepted, lastLoop, lastEvent, lastQ>>

\* Cmd.Start launches the program and sets Process, then Cmd.Wait begins
\* (builder.go:134-136)
StartProcess(u, ok) ==
    /\ alive
    /\ unit[u].pc = "starting"
    /\ IF ~ok
       THEN /\ unit' = [unit EXCEPT ![u].pc = "done", ![u].launch = "start failed"]
            /\ UNCHANGED <<appCmd, procs>>
       ELSE /\ procs' = [procs EXCEPT ![u] = "live"]
            /\ appCmd' = [appCmd EXCEPT !.Process = u, !.finished = TRUE]
            /\ IF appCmd.finished
               THEN unit' = [unit EXCEPT ![u].pc = "done",
                                         ![u].launch = "wait already called"]
               ELSE unit' = [unit EXCEPT ![u].pc = "waiting",
                                         ![u].launch = "started",
                                         ![u].waitOn = u]
    /\ UNCHANGED <<clock, buildTime, exts, goCmdArgs, alive,
                   accepted, lastLoop, lastEvent, lastQ>>

\* a restart() without the deferred recover
RestartRecoversNot == FALSE

\* restart(): the deferred recover (builder.go:120-124)
RestartRecovers == TRUE

\* A panic inside b.appCmd.Run() while another unit uses the same Cmd
\* without synchronisation; the deferred function runs (builder.go:120-124)
RestartPanic(u) ==
    /\ alive
    /\ unit[u].pc = "starting"
    /\ \E v \in Units \ {u} : unit[v].pc \in RacyPcs
    /\ unit' = [unit EXCEPT ![u].pc = "done", ![u].launch = "panic"]
    /\ alive' = RestartRecovers
    /\ UNCHANGED <<clock, buildTime, exts, appCmd, goCmdArgs, procs,
                   accepted, lastLoop, lastEvent, lastQ>>

\* Cmd.Wait returns once the process it waits for has ended; the error of
\* Run is logged (builder.go:134-136)
WaitReturn(u) ==
    /\ alive
    /\ unit[u].pc = "waiting"
    /\ procs[unit[u].waitOn] \in {"killed", "exited"}
    /\ procs' = [procs EXCEPT ![unit[u].waitOn] = "reaped"]
    /\ unit' = [unit EXCEPT ![u].pc = "done",
                            ![u].launch = IF procs[unit[u].waitOn] = "killed"
                                          THEN "returned killed"
                                          ELSE "returned exited"]
    /\ UNCHANGED <<clock, buildTime, exts, appCmd, goCmdArgs, alive,
                   accepted, lastLoop, lastEvent, lastQ>>

\* the started program ends by itself
ProcExit(p) ==
    /\ alive
    /\ procs[p] = "live"
    /\ procs' = [procs EXCEPT ![p] = "exited"]
    /\ UNCHANGED <<clock, buildTime, exts, appCmd, goCmdArgs, unit, alive,
                   accepted, lastLoop, lastEvent, lastQ>>

Next ==
    \/ Tick
    \/ \E e \in Events, d \in 0..1 : WatchEvent(e, d)
    \/ WatchError
    \/ \E u \in Units : BuildStart(u)
    \/ \E u \in Units, ok \in BOOLEAN : BuildExit(u, ok)
    \/ \E u \in Units : RestartKill(u)
    \/ \E u \in Units : RunStart(u)
    \/ \E u \in Units, ok \in BOOLEAN : StartProcess(u, ok)
    \/ \E u \in Units : RestartPanic(u)
    \/ \E u \in Units : WaitReturn(u)
    \/ \E p \in Units : ProcExit(p)

Spec == Init /\ [][Next]_vars

TypeOK ==
    /\ clock \in ClockStart..MaxClock
    /\ buildTime \in 0..MaxClock
    /\ appCmd.Process \in 0..MaxUnits
    /\ accepted \in 0..MaxUnits
    /\ \A u \in Units : unit[u].invocations \in 0..1

\* ------------------------------------------- the path filter on its own
\* longest extension list explored
MaxExts == 2
\* the extension strings a list is made of
ExtStrings == { <<>>, <<".", "g">>, <<"g">>, <<"*">>, <<".", "t">> }
ExtLists == UNION { [1..n -> ExtStrings] : n \in 0..MaxExts }
\* the outputName arguments of newBuilder
FilterOutputs == { <<>>, <<"a">>, <<"a", ".", "g">> }
\* event.Name values delivered by the watcher
FilterPaths ==
    { <<"/", "w", "/", "a">>,
      <<"/", "w", "/", "w">>,
      <<"/", "w", "/", "a", ".", "g">>,
      <<"m", ".", "g">>,
      <<"m", ".", "t">>,
      <<"m", "g">>,
      <<"m">> }
FilterEvents == [name : FilterPaths, op : Ops]

\* the builder and the loop before the first event, b.exts being es
\* (builder.go:71-76, 159-161)
BuilderInit(es, outputName) ==
    /\ clock = ClockStart
    /\ buildTime = 0
    /\ exts = es
    /\ appCmd = [Path |-> ResolveOutput(outputName), Process |-> 0,
                 finished |-> FALSE]
    /\ goCmdArgs = GoCmdArgs(<<>>, outputName)
    /\ procs = [p \in Units |-> "none"]
    /\ unit = [u \in Units |-> IdleUnit]
    /\ alive = TRUE
    /\ accepted = 0
    /\ lastLoop = "none"
    /\ lastEvent = NoEvent
    /\ lastQ = [t |-> 0, fired |-> FALSE, afterFailure |-> FALSE]

\* newBuilder on every extension list and output name (builder.go:30-78)
FilterInit ==
    \E raw \in ExtLists, out \in FilterOutputs :
        BuilderInit(NormalizeExts(raw), out)

\* isIgnore as a function of b.exts: a builder holding any extension list
\* (builder.go:81-99)
IsIgnoreInit ==
    \E es \in ExtLists, out \in FilterOutputs : BuilderInit(es, out)

\* the watch loop alone: the goroutines it spawns are not scheduled
\* (builder.go:161-186)
FilterNext ==
    \/ Tick
    \/ \E e \in FilterEvents, d \in 0..1 : WatchEvent(e, d)

FilterSpec == FilterInit /\ [][FilterNext]_vars

IsIgnoreSpec == IsIgnoreInit /\ [][FilterNext]_vars

\* ================================================================== claims

\* an event that is neither a Chmod nor ignored by isIgnore
Qualifies(e) == "Chmod" \notin e.op /\ ~isIgnore(e.name)

\* C1: of two consecutive qualifying events seen at clock readings t and
\* t+D, the first accepted, the second dispatches a build exactly when D
\* exceeds the debounce window.
C1_DebounceByReadings ==
    [][ (lastQ.fired /\ lastQ' # lastQ) =>
            (lastQ'.fired <=> (lastQ'.t - lastQ.t > DebounceWindow)) ]_vars

\* C2: a unit whose build failed never calls restart: it issues no kill and
\* no launch, and the step in which the build fails leaves the handle and
\* every started instance as they were.
C2_FailedBuildNoRestart ==
    /\ [] (\A u \in Units : unit[u].result = "fail" =>
              /\ unit[u].pc = "done"
              /\ unit[u].restartCalls = 0
              /\ unit[u].kill = "none"
              /\ unit[u].launch = "none")
    /\ [][ (\E u \in Units : unit[u].result = "none" /\ unit'[u].result = "fail")
              => UNCHANGED <<appCmd, procs>> ]_vars

\* a build has failed while an earlier instance is still running
C2_Witness ==
    \E u \in Units, p \in Units :
        unit[u].result = "fail" /\ unit[u].pc = "done" /\ procs[p] = "live"

\* C3: a successful build calls restart exactly once; inside it an instance
\* the handle held live is signalled before Run is called, and Run is
\* called whether or not Kill returned an error.
C3_OneRestartKillThenLaunch ==
    \A u \in Units :
        /\ unit[u].restartCalls = (IF unit[u].result = "ok" THEN 1 ELSE 0)
        /\ (unit[u].launch # "none" /\ unit[u].sawProcess # 0)
              => unit[u].kill # "none"
        /\ (unit[u].pc \in {"run", "starting", "waiting", "done"} /\ unit[u].sawLive)
              => (unit[u].kill = "sent" /\ procs[unit[u].sawProcess] # "live")
        /\ (unit[u].result = "ok" /\ unit[u].pc = "done")
              => unit[u].launch # "none"

\* Kill returned an error and Run was called all the same
C3_Witness ==
    \E u \in Units : unit[u].kill = "error" /\ unit[u].launch # "none"

\* C4: every successful build whose restart got past Run without an error of
\* the operating system has launched a new instance.
C4_EveryRestartLaunches ==
    \A u \in Units :
        (/\ unit[u].result = "ok"
         /\ unit[u].pc \in {"waiting", "done"}
         /\ unit[u].launch \notin {"start failed", "panic"})
            => procs[u] # "none"

\* C5: at most one child instance is live.
C5_AtMostOneLive ==
    Cardinality({p \in Units : procs[p] = "live"}) <= 1

\* C6: no instance is started while an earlier one is live and unsignalled.
C6_SignalBeforeStart ==
    [][ \A p \in Units :
            (procs[p] = "none" /\ procs'[p] = "live")
                => \A q \in Units \ {p} : procs[q] # "live" ]_vars

\* C7: no two units execute the statements of restart on the handle at the
\* same time.
C7_NoOverlappingRestart ==
    Cardinality({u \in Units : unit[u].pc \in RacyPcs}) <= 1

\* C8: while units are inside the build invocation or blocked in Wait, the
\* loop can take every event and every watcher error.
C8_LoopNeverBlocks ==
    (\E u \in Units : unit[u].pc \in {"building", "waiting"})
        => /\ \A e \in Events : ENABLED WatchEvent(e, 0)
           /\ ENABLED WatchError

\* the loop suppressed an event while one unit builds and another waits
C8_Witness ==
    /\ lastLoop = "suppressed"
    /\ \E u, v \in Units : unit[u].pc = "building" /\ unit[v].pc = "waiting"

\* C9: after a kill error, a launch error or a panic in restart the tool is
\* alive and a qualifying event outside the debounce window is dispatched.
C9_RestartFailureConfined ==
    RestartFailed =>
        /\ alive
        /\ \A e \in Events :
              (Qualifies(e) /\ ~Debounced(clock))
                  => ENABLED (WatchEvent(e, 0) /\ accepted' = accepted + 1)

\* a build was dispatched after restart had panicked
C9_Witness ==
    /\ lastQ.fired /\ lastQ.afterFailure
    /\ \E u \in Units : unit[u].launch = "panic"

\* C10: the build invocations are those of the accepted triggers, one each,
\* with the configured arguments.
C10_OneBuildPerTrigger ==
    /\ accepted = Cardinality({u \in Units : unit[u].pc # "idle"})
    /\ \A u \in Units :
          /\ unit[u].invocations =
                (IF unit[u].pc \in {"idle", "spawned"} THEN 0 ELSE 1)
          /\ unit[u].invocations > 0 => unit[u].args = goCmdArgs

\* a failed build was not retried and a later event dispatched the next one
C10_Witness ==
    \E u, v \in Units :
        /\ u < v
        /\ unit[u].result = "fail" /\ unit[u].invocations = 1
        /\ unit[v].pc = "building"

\* an extension of b.exts is a suffix of the path
SuffixConfigured(path) == \E i \in DOMAIN exts : HasSuffix(path, exts[i])

\* b.exts holds the wildcard
HasWildcard == \E i \in DOMAIN exts : exts[i] = <<"*">>

\* the loop takes event e and dispatches a build
Dispatches(e) == \E d \in 0..1 : WatchEvent(e, d) /\ accepted' = accepted + 1

C14_ChmodNeverDispatches ==
    [][ \A e \in Events, d \in 0..1 :
            ("Chmod" \in e.op /\ WatchEvent(e, d))
                => UNCHANGED <<buildTime, accepted, unit, lastQ>> ]_vars

\* after a build, a write-and-chmod event on a watched path was dropped as a
\* Chmod and the window has passed without a dispatch
C14_Witness ==
    /\ lastLoop = "chmod"
    /\ lastEvent.op = {"Write", "Chmod"}
    /\ ~isIgnore(lastEvent.name)
    /\ accepted > 0
    /\ clock - buildTime > DebounceWindow

\* C15: once a later restart has run its kill block, no unit that was then
\* blocked in Wait is left waiting for an instance nobody signalled.
C15_BlockedRestartReleased ==
    \A v \in Units :
        unit[v].pc \in {"run", "starting", "waiting", "done"} =>
            \A u \in unit[v].sawWaiting : procs[unit[u].waitOn] # "live"

\* C16: while a unit is building the loop dispatches the next trigger once
\* the window has passed, the new unit starts its build, and a restart
\* kills the live instance the handle holds.
C16_UnitsRunConcurrently ==
    /\ ((\E u \in Units : unit[u].pc = "building") /\ ~Debounced(clock))
          => \A e \in Events : Qualifies(e) => ENABLED Dispatches(e)
    /\ \A v \in Units : unit[v].pc = "spawned" => ENABLED BuildStart(v)
    /\ \A v \in Units :
          (/\ unit[v].pc = "restart"
           /\ appCmd.Process # 0
           /\ procs[appCmd.Process] = "live")
              => ENABLED (RestartKill(v) /\ procs'[appCmd.Process] = "killed")

\* two build invocations overlap while the instance an earlier unit started
\* is running
C16_Witness ==
    \E u, v, w \in Units :
        /\ u # v
        /\ unit[u].pc = "building" /\ unit[v].pc = "building"
        /\ unit[w].pc = "waiting" /\ procs[w] = "live"

\* C17: buildTime is 0 before any build, changes exactly in the step that
\* dispatches a build, to the clock reading of that moment, and never
\* decreases while the clock does not.
C17_BuildTimeIsLastDispatch ==
    /\ [] (accepted = 0 => buildTime = 0)
    /\ [] (buildTime <= clock)
    /\ [][ /\ (buildTime' # buildTime) <=> (accepted' = accepted + 1)
           /\ (accepted' # accepted) => (buildTime' = clock')
           /\ (clock' >= clock) => (buildTime' >= buildTime)
           /\ (\A e \in Events : ~Dispatches(e)) => (buildTime' = buildTime) ]_vars

\* after two dispatches, a suppressed event and a finished unit, buildTime
\* is the reading of the second dispatch
C17_Witness ==
    /\ accepted = 2
    /\ lastLoop = "suppressed"
    /\ buildTime > ClockStart + DebounceWindow
    /\ clock > buildTime
    /\ \E u \in Units : unit[u].pc = "done"

\* C18: restart sends the kill signal exactly when the handle holds an
\* instance that is live at that moment.
C18_KillIffLive ==
    \A u \in Units :
        unit[u].pc \in {"run", "starting", "waiting", "done"} =>
            (unit[u].kill = "sent" <=> unit[u].sawLive)

\* C19: a builder created with a list that holds "*" has, after
\* normalisation, only elements that start with '.' or are "*", still holds
\* the wildcard, and lets every path but the build output pass isIgnore.
C19_WildcardSurvivesNormalize ==
    \A raw \in ExtLists :
        (exts = NormalizeExts(raw) /\ \E i \in DOMAIN raw : raw[i] = <<"*">>) =>
            /\ \A i \in DOMAIN exts :
                  Len(exts[i]) > 0 /\ (exts[i][1] = "." \/ exts[i] = <<"*">>)
            /\ HasWildcard
            /\ \A P \in FilterPaths \ {appCmd.Path} : ~isIgnore(P)

\* C20: a qualifying event is dispatched exactly when the clock is more than
\* the window past buildTime, the reading of the last accepted trigger; a
\* suppressed event leaves buildTime alone, so it does not postpone the next
\* dispatch.
C20_WindowFromLastTrigger ==
    /\ [] ((clock - buildTime > DebounceWindow) =>
              \A e \in Events : Qualifies(e) => ENABLED Dispatches(e))
    /\ [][ \A e \in Events, d \in 0..1 :
              (Qualifies(e) /\ WatchEvent(e, d)) =>
                  IF clock - buildTime > DebounceWindow
                  THEN accepted' = accepted + 1 /\ buildTime' = clock'
                  ELSE UNCHANGED <<buildTime, accepted, unit>> ]_vars

\* the last event was suppressed at most one window ago, the last trigger is
\* more than one window back
C20_Witness ==
    /\ lastLoop = "suppressed"
    /\ ~lastQ.fired
    /\ lastQ.t > buildTime
    /\ clock - lastQ.t <= DebounceWindow
    /\ clock - buildTime > DebounceWindow

====
